---------------------------- MODULE Spec2Model ----------------------------
(***************************************************************************)
(* Model of backend/pricing_simulator.py (class PricingSimulator): the     *)
(* catalog and observation tables, elasticity estimation, scenario         *)
(* simulation and grid-search price optimisation.                          *)
(*                                                                         *)
(* Numbers.  The code computes in IEEE doubles.  Finite values are         *)
(* modelled as exact rationals <<n, d>> (d > 0, lowest terms); the         *)
(* non-finite results numpy gives for a division by zero (nan, -inf, +inf) *)
(* are <<0, 0>>, <<-1, 0>> and <<1, 0>>.  Natural logarithms are taken of  *)
(* powers of two only and are expressed in units of ln 2, which leaves     *)
(* the regression slope and r^2 unchanged.                                 *)
(***************************************************************************)
EXTENDS Integers, Sequences, FiniteSets, TLC

VARIABLES
    product_data,      \* self.product_data: None or the catalog rows, in order
    historical_data,   \* self.historical_data: None or the observation rows
    elasticities,      \* self.elasticities: product_id -> ElasticityResult
    models,            \* self.models: product_id -> fitted model (cache)
    result,            \* outcome of the most recent call: return value or exception
    last_results       \* return value of the latest successful calculate_elasticity

vars == <<product_data, historical_data, elasticities, models, result, last_results>>

\* A table attribute is None until its first load.
None == [loaded |-> FALSE, rows |-> <<>>]
Frame(rows) == [loaded |-> TRUE, rows |-> rows]

-----------------------------------------------------------------------------
(* Exact rational arithmetic standing for finite floating-point values.    *)

Abs(n) == IF n < 0 THEN -n ELSE n

RECURSIVE GCD(_, _)
GCD(a, b) == IF b = 0 THEN a ELSE GCD(b, a % b)

Rat(n, d) ==
    LET g == GCD(Abs(n), Abs(d))
        s == IF d < 0 THEN -1 ELSE 1
    IN  <<(s * n) \div g, (s * d) \div g>>

Int2Rat(n) == <<n, 1>>
RAdd(a, b) == Rat(a[1] * b[2] + b[1] * a[2], a[2] * b[2])
RSub(a, b) == Rat(a[1] * b[2] - b[1] * a[2], a[2] * b[2])
RMul(a, b) == Rat(a[1] * b[1], a[2] * b[2])
RDiv(a, b) == Rat(a[1] * b[2], a[2] * b[1])
RLt(a, b)  == a[1] * b[2] < b[1] * a[2]
RGt(a, b)  == RLt(b, a)
RZero == <<0, 1>>
ROne  == <<1, 1>>

\* Non-finite doubles: a zero denominator marks them.
NaN  == <<0, 0>>
PInf == <<1, 0>>
NInf == <<-1, 0>>

\* numpy float64 division a / b of finite values: no exception when b = 0
FDiv(a, b) ==
    IF b # RZero THEN RDiv(a, b)
    ELSE IF a = RZero THEN NaN
    ELSE IF RLt(a, RZero) THEN NInf ELSE PInf

\* IEEE comparison x < y with y finite: every comparison with nan is False
FLt(x, y) ==
    IF x = NaN THEN FALSE
    ELSE IF x = NInf THEN TRUE
    ELSE IF x = PInf THEN FALSE
    ELSE RLt(x, y)

\* IEEE comparison x >= y with y finite
FGe(x, y) ==
    IF x = NaN THEN FALSE
    ELSE IF x = NInf THEN FALSE
    ELSE IF x = PInf THEN TRUE
    ELSE ~RLt(x, y)

-----------------------------------------------------------------------------
(* Helpers standing for the pandas operations the code uses.               *)

\* Series.sum(): the sum of a column of numbers
Sum(column) ==
    LET S[i \in 0..Len(column)] == IF i = 0 THEN 0 ELSE S[i - 1] + column[i]
    IN  S[Len(column)]

Range(s) == {s[i] : i \in 1..Len(s)}

-----------------------------------------------------------------------------
(* Outcome of a call, as its caller sees it.                               *)

NoValue == <<>>

Returned(op, args, value) ==
    [op |-> op, error |-> "none", message |-> <<>>, args |-> args, value |-> value]

Raised(op, args, error, message) ==
    [op |-> op, error |-> error, message |-> message, args |-> args, value |-> NoValue]

-----------------------------------------------------------------------------
(* load_product_data / load_historical_data                                *)

ProductRequiredCols ==
    <<"product_id", "product_name", "category", "base_cost", "current_price">>

HistoryRequiredCols == <<"date", "product_id", "price", "volume">>

\* all(col in df.columns for col in required_cols)
HasRequiredCols(df, required_cols) ==
    \A i \in 1..Len(required_cols) : required_cols[i] \in df.columns

\* Faulty variant: the message does not list the columns.
ProductColsMessage_NoList ==
    <<"Product data missing required columns.", <<>>>>

\* f"Product data missing required columns. Need: {required_cols}"
ProductColsMessage ==
    <<"Product data missing required columns. Need: ", ProductRequiredCols>>

\* f"Historical data missing required columns. Need: {required_cols}"
HistoryColsMessage ==
    <<"Historical data missing required columns. Need: ", HistoryRequiredCols>>

\* The date strings pd.to_datetime can parse, with the timestamp each gives.
ParsedDate ==
    [d \in {"2023-01-01", "2023-01-08"} |->
        IF d = "2023-01-01" THEN "Timestamp(2023-01-01 00:00:00)"
        ELSE "Timestamp(2023-01-08 00:00:00)"]

Parseable(d) == d \in DOMAIN ParsedDate

\* pd.to_datetime(column): defined only when every value parses
to_datetime(rows) ==
    [i \in 1..Len(rows) |-> [rows[i] EXCEPT !.date = ParsedDate[rows[i].date]]]

load_product_data(df) ==
    /\ IF ~HasRequiredCols(df, ProductRequiredCols)
       THEN /\ result' = Raised("load_product_data", df,
                                "ValueError", ProductColsMessage)
            /\ UNCHANGED product_data
       ELSE /\ product_data' = Frame(df.rows)
            /\ result' = Returned("load_product_data", df, NoValue)
    /\ UNCHANGED <<historical_data, elasticities, models, last_results>>

load_historical_data(df) ==
    /\ IF ~HasRequiredCols(df, HistoryRequiredCols)
       THEN /\ result' = Raised("load_historical_data", df,
                                "ValueError", HistoryColsMessage)
            /\ UNCHANGED historical_data
       ELSE IF \E i \in 1..Len(df.rows) : ~Parseable(df.rows[i].date)
       \* line 32 has already stored the copy when line 33 raises
       THEN /\ historical_data' = Frame(df.rows)
            /\ result' = Raised("load_historical_data", df,
                                "ValueError", <<"Unknown datetime string format">>)
       ELSE /\ historical_data' = Frame(to_datetime(df.rows))
            /\ result' = Returned("load_historical_data", df, NoValue)
    /\ UNCHANGED <<product_data, elasticities, models, last_results>>

-----------------------------------------------------------------------------
(* calculate_elasticity                                                    *)

MinObservations == 5
DefaultElasticity == <<-1, 1>>

\* np.log of a power of two, in units of ln 2
ln(x) == CHOOSE k \in 0..x : 2 ^ k = x

\* self.historical_data['product_id'].unique()
unique_product_ids(frame) == {frame.rows[i].product_id : i \in 1..Len(frame.rows)}

\* rows of one product, then the rows with price > 0 and volume > 0 among them
product_df(frame, product_id) ==
    SelectSeq(SelectSeq(frame.rows, LAMBDA r : r.product_id = product_id),
              LAMBDA r : r.price > 0 /\ r.volume > 0)

\* LinearRegression().fit(X, y): least squares with an intercept; a constant
\* regressor gives the minimum-norm solution, slope 0
LinearRegressionFit(df) ==
    LET n   == Len(df)
        X   == [i \in 1..n |-> ln(df[i].price)]
        y   == [i \in 1..n |-> ln(df[i].volume)]
        Sx  == Sum(X)
        Sy  == Sum(y)
        Sxx == Sum([i \in 1..n |-> X[i] * X[i]])
        Sxy == Sum([i \in 1..n |-> X[i] * y[i]])
        coef == IF n * Sxx - Sx * Sx = 0 THEN RZero
                ELSE Rat(n * Sxy - Sx * Sy, n * Sxx - Sx * Sx)
    IN  [coef_ |-> coef,
         intercept_ |-> RSub(Rat(Sy, n), RMul(coef, Rat(Sx, n)))]

\* model.score(X, y): r2_score = 1 - u/v, and 1.0 (u = 0) or 0.0 when v = 0
LinearRegressionScore(model, df) ==
    LET n   == Len(df)
        X   == [i \in 1..n |-> ln(df[i].price)]
        y   == [i \in 1..n |-> ln(df[i].volume)]
        Sx  == Sum(X)
        Sy  == Sum(y)
        Sxx == Sum([i \in 1..n |-> X[i] * X[i]])
        Sxy == Sum([i \in 1..n |-> X[i] * y[i]])
        Syy == Sum([i \in 1..n |-> y[i] * y[i]])
        b   == model.coef_
        a   == model.intercept_
        \* u = sum (y - a - b x)^2
        u   == RAdd(RAdd(Int2Rat(Syy), RMul(Int2Rat(n), RMul(a, a))),
                    RAdd(RMul(RMul(b, b), Int2Rat(Sxx)),
                         RAdd(RMul(Int2Rat(-2 * Sy), a),
                              RAdd(RMul(Int2Rat(-2 * Sxy), b),
                                   RMul(Int2Rat(2 * Sx), RMul(a, b))))))
        \* v = sum (y - mean(y))^2
        v   == Rat(n * Syy - Sy * Sy, n)
    IN  IF v # RZero THEN RSub(ROne, RDiv(u, v))
        ELSE IF u = RZero THEN ROne ELSE RZero

\* Faulty variant: "<=" for "<" in the test on the number of valid rows.
ElasticityResult_OffByOne(frame, product_id) ==
    LET df == product_df(frame, product_id) IN
    IF Len(df) <= MinObservations
    THEN [elasticity |-> DefaultElasticity, r_squared |-> RZero, is_modeled |-> FALSE]
    ELSE LET model == LinearRegressionFit(df) IN
         [elasticity |-> model.coef_,
          r_squared  |-> LinearRegressionScore(model, df),
          is_modeled |-> TRUE]

\* body of the loop of lines 45-74 for one product: its entry of results
ElasticityResult(frame, product_id) ==
    LET df == product_df(frame, product_id) IN
    IF Len(df) < MinObservations
    THEN [elasticity |-> DefaultElasticity, r_squared |-> RZero, is_modeled |-> FALSE]
    ELSE LET model == LinearRegressionFit(df) IN
         [elasticity |-> model.coef_,
          r_squared  |-> LinearRegressionScore(model, df),
          is_modeled |-> TRUE]

\* the products the loop stores a fitted model for (line 74)
ModelledIds(frame) ==
    {p \in unique_product_ids(frame) : Len(product_df(frame, p)) >= MinObservations}

\* Faulty variant: the new results are merged into the stored mapping.
ElasticityResults_Merged(frame) ==
    [p \in DOMAIN elasticities \cup unique_product_ids(frame) |->
        IF p \in unique_product_ids(frame)
        THEN ElasticityResult(frame, p) ELSE elasticities[p]]

\* the results dict the loop of lines 43-74 builds, assigned at line 76
ElasticityResults(frame) ==
    [p \in unique_product_ids(frame) |-> ElasticityResult(frame, p)]

calculate_elasticity ==
    IF ~historical_data.loaded
    THEN /\ result' = Raised("calculate_elasticity", <<>>, "ValueError",
                             <<"Historical data not loaded">>)
         /\ UNCHANGED <<product_data, historical_data, elasticities, models,
                        last_results>>
    ELSE LET results == ElasticityResults(historical_data)
         IN  /\ elasticities' = results
             /\ models' = [p \in DOMAIN models \cup ModelledIds(historical_data) |->
                             IF p \in ModelledIds(historical_data)
                             THEN LinearRegressionFit(product_df(historical_data, p))
                             ELSE models[p]]
             /\ result' = Returned("calculate_elasticity", <<>>, results)
             /\ last_results' = results
             /\ UNCHANGED <<product_data, historical_data>>

-----------------------------------------------------------------------------
(* simulate_scenario                                                       *)

DefaultBaseVolume == 1000

\* dict.get(key, default)
DictGet(dict, key, default) == IF key \in DOMAIN dict THEN dict[key] ELSE default

\* Faulty variant: the elasticity is estimated afresh from the loaded observations.
SimElasticity_Fresh(product_id) ==
    IF historical_data.loaded /\ product_id \in unique_product_ids(historical_data)
    THEN ElasticityResult(historical_data, product_id).elasticity
    ELSE DefaultElasticity

\* line 94: self.elasticities.get(product_id, {}).get('elasticity', -1.0)
SimElasticity(product_id) ==
    DictGet(DictGet(elasticities, product_id, [elasticity |-> DefaultElasticity]),
            "elasticity", DefaultElasticity)

\* hist_prod['volume'].mean()
VolumeMean(hist_prod) ==
    Rat(Sum([i \in 1..Len(hist_prod) |-> hist_prod[i].volume]), Len(hist_prod))

\* lines 106-110: base volume as simulate_scenario computes it
SimBaseVolume(product_id) ==
    IF historical_data.loaded
    THEN LET hist_prod ==
                 SelectSeq(historical_data.rows, LAMBDA r : r.product_id = product_id)
         IN  IF hist_prod # <<>> THEN VolumeMean(hist_prod)
             ELSE Int2Rat(DefaultBaseVolume)
    ELSE Int2Rat(DefaultBaseVolume)

\* Faulty variant: no guard against a zero baseline.
ChangePct_Unguarded(new, old) == FDiv(RSub(new, old), old)

\* (new - old) / old if old else 0
ChangePct(new, old) == IF old # RZero THEN RDiv(RSub(new, old), old) ELSE RZero

\* body of the loop of lines 89-139 for one catalog row: its record
SimulationRecord(row, price_changes) ==
    LET product_id    == row.product_id
        current_price == Int2Rat(row.current_price)
        base_cost     == Int2Rat(row.base_cost)
        elasticity    == SimElasticity(product_id)
        pct_change    == DictGet(price_changes, product_id, RZero)
        new_price     == RMul(current_price, RAdd(ROne, pct_change))
        base_volume   == SimBaseVolume(product_id)
        volume_change_pct == RMul(elasticity, pct_change)
        new_volume    == RMul(base_volume, RAdd(ROne, volume_change_pct))
        old_revenue   == RMul(current_price, base_volume)
        new_revenue   == RMul(new_price, new_volume)
        old_profit    == RMul(RSub(current_price, base_cost), base_volume)
        new_profit    == RMul(RSub(new_price, base_cost), new_volume)
    IN  [product_id |-> product_id,
         product_name |-> row.product_name,
         category |-> row.category,
         old_price |-> current_price,
         new_price |-> new_price,
         price_change_pct |-> pct_change,
         elasticity |-> elasticity,
         old_volume |-> base_volume,
         new_volume |-> new_volume,
         volume_change_pct |-> volume_change_pct,
         old_revenue |-> old_revenue,
         new_revenue |-> new_revenue,
         revenue_change_pct |-> ChangePct(new_revenue, old_revenue),
         old_profit |-> old_profit,
         new_profit |-> new_profit,
         profit_change_pct |-> ChangePct(new_profit, old_profit)]

\* the DataFrame simulate_scenario returns, one record per catalog row
SimulationResults(price_changes) ==
    [i \in 1..Len(product_data.rows) |->
        SimulationRecord(product_data.rows[i], price_changes)]

simulate_scenario(price_changes) ==
    /\ IF ~product_data.loaded
       THEN result' = Raised("simulate_scenario", price_changes, "ValueError",
                             <<"Product data not loaded">>)
       ELSE result' = Returned("simulate_scenario", price_changes,
                               SimulationResults(price_changes))
    /\ UNCHANGED <<product_data, historical_data, elasticities, models, last_results>>

-----------------------------------------------------------------------------
(* optimize_pricing                                                        *)

NumTestPoints == 5

\* np.linspace(-max_change, max_change, 5): start + i * step, both ends included
test_points(max_change) ==
    LET start == RSub(RZero, max_change)
        step  == RDiv(RSub(max_change, start), Int2Rat(NumTestPoints - 1))
    IN  [i \in 1..NumTestPoints |-> RAdd(start, RMul(Int2Rat(i - 1), step))]

\* Faulty variant: the optimizer averages the valid observations only.
OptBaseVolume_ValidOnly(product_id) ==
    IF historical_data.loaded
    THEN LET hist_prod == product_df(historical_data, product_id)
         IN  IF hist_prod # <<>> THEN VolumeMean(hist_prod)
             ELSE Int2Rat(DefaultBaseVolume)
    ELSE Int2Rat(DefaultBaseVolume)

\* lines 161-165: base volume as optimize_pricing recomputes it
OptBaseVolume(product_id) ==
    IF historical_data.loaded
    THEN LET hist_prod ==
                 SelectSeq(historical_data.rows, LAMBDA r : r.product_id = product_id)
         IN  IF hist_prod # <<>> THEN VolumeMean(hist_prod)
             ELSE Int2Rat(DefaultBaseVolume)
    ELSE Int2Rat(DefaultBaseVolume)

\* line 167: self.elasticities.get(product_id, {}).get('elasticity', -1.0)
OptElasticity(product_id) ==
    IF product_id \in DOMAIN elasticities
    THEN elasticities[product_id].elasticity
    ELSE DefaultElasticity

\* line 173: margin = (new_price - base_cost) / new_price, a float64 division
Margin(row, change) ==
    LET new_price == RMul(Int2Rat(row.current_price), RAdd(ROne, change))
    IN  FDiv(RSub(new_price, Int2Rat(row.base_cost)), new_price)

\* lines 174-175: the candidate is skipped when margin < min_margin
Skipped(row, change, min_margin) == FLt(Margin(row, change), min_margin)

\* lines 177-182: what the optimizer projects for one candidate
OptProjection(row, change) ==
    LET new_price  == RMul(Int2Rat(row.current_price), RAdd(ROne, change))
        base_cost  == Int2Rat(row.base_cost)
        vol_change == RMul(OptElasticity(row.product_id), change)
        new_vol    == RMul(OptBaseVolume(row.product_id), RAdd(ROne, vol_change))
    IN  [profit  |-> RMul(RSub(new_price, base_cost), new_vol),
         revenue |-> RMul(new_price, new_vol),
         volume  |-> new_vol]

\* lines 184-190: the metric the objective selects, 0 for any other string
Target(objective, row, change) ==
    IF objective = "profit" THEN OptProjection(row, change).profit
    ELSE IF objective = "revenue" THEN OptProjection(row, change).revenue
    ELSE IF objective = "volume" THEN OptProjection(row, change).volume
    ELSE RZero

\* Faulty variant: ">=" for ">", so the last of equal maxima is kept.
BestChange_LastWins(row, objective, min_margin, max_change) ==
    LET points == test_points(max_change)
        best[i \in 0..NumTestPoints] ==
            IF i = 0 THEN <<NInf, RZero>>
            ELSE LET prev   == best[i - 1]
                     target == Target(objective, row, points[i])
                 IN  IF Skipped(row, points[i], min_margin) THEN prev
                     ELSE IF ~FLt(target, prev[1]) THEN <<target, points[i]>>
                     ELSE prev
    IN  best[NumTestPoints][2]

\* lines 154-196 for one catalog row: best_change after the candidate loop
BestChange(row, objective, min_margin, max_change) ==
    LET points == test_points(max_change)
        \* <<best_val, best_change>> after the first i candidates
        best[i \in 0..NumTestPoints] ==
            IF i = 0 THEN <<NInf, RZero>>
            ELSE LET prev   == best[i - 1]
                     target == Target(objective, row, points[i])
                 IN  IF Skipped(row, points[i], min_margin) THEN prev
                     ELSE IF FLt(prev[1], target) THEN <<target, points[i]>>
                     ELSE prev
    IN  best[NumTestPoints][2]

\* the recommendations dict optimize_pricing returns
Recommendations(objective, min_margin, max_change) ==
    [p \in {product_data.rows[i].product_id : i \in 1..Len(product_data.rows)} |->
        LET i == CHOOSE j \in 1..Len(product_data.rows) :
                     /\ product_data.rows[j].product_id = p
                     /\ \A k \in (j + 1)..Len(product_data.rows) :
                            product_data.rows[k].product_id # p
        IN  BestChange(product_data.rows[i], objective, min_margin, max_change)]

optimize_pricing(objective, min_margin, max_change) ==
    /\ IF ~product_data.loaded
       \* no guard in the code: self.product_data.iterrows() on None
       THEN result' = Raised("optimize_pricing", <<objective, min_margin, max_change>>,
                             "AttributeError",
                             <<"'NoneType' object has no attribute 'iterrows'">>)
       ELSE result' = Returned("optimize_pricing", <<objective, min_margin, max_change>>,
                               Recommendations(objective, min_margin, max_change))
    /\ UNCHANGED <<product_data, historical_data, elasticities, models, last_results>>

-----------------------------------------------------------------------------
(* The inputs the operations are called with.                              *)

MaxValid   == 5    \* valid observations per product, at most
MaxInvalid == 2    \* invalid observations per product, at most

Product(id, cost, price) ==
    [product_id |-> id, product_name |-> "Coffee " \o id, category |-> "Coffee",
     base_cost |-> cost, current_price |-> price]

Restrict(row, columns) == [c \in columns |-> row[c]]

\* a DataFrame with the given columns
FrameOf(rows, columns) ==
    [columns |-> columns, rows |-> [i \in 1..Len(rows) |-> Restrict(rows[i], columns)]]

NonEmptySubsets(S) == SUBSET S \ {{}}

\* Demand shapes of the valid observations: price and volume are powers of two.
Shapes == {"unit", "noisy", "fixed"}

ShapePrice(shape, i) == IF shape = "fixed" THEN 2 ELSE 2 ^ (i % 3)

ShapeVolume(shape, i) ==
    IF shape = "unit" THEN 4 \div (2 ^ (i % 3))
    ELSE 2 ^ (2 - ((i * i) % 3))

Observation(id, i, price, volume) ==
    [date |-> IF i % 2 = 0 THEN "2023-01-01" ELSE "2023-01-08",
     product_id |-> id, price |-> price, volume |-> volume]

\* n valid observations of a product followed by k invalid ones
\* (the first with volume 0, the others with price 0)
Block(id, n, k, shape) ==
    [i \in 1..(n + k) |->
        IF i <= n THEN Observation(id, i, ShapePrice(shape, i), ShapeVolume(shape, i))
        ELSE IF i = n + 1 THEN Observation(id, i, 2, 0)
        ELSE Observation(id, i, 0, 4)]

SpoilDate(rows) == [rows EXCEPT ![1].date = "last tuesday"]

EmptyDict == [p \in {} |-> RZero]

-----------------------------------------------------------------------------
(* Spec: the simulator from construction on, under any sequence of calls.  *)

SessionCatalogs ==
    {<<Product("P001", 10, 18)>>,
     <<Product("P001", 10, 10), Product("P002", 10, 18)>>}

CatalogFrames ==
    {FrameOf(c, Range(ProductRequiredCols)) : c \in SessionCatalogs}
    \cup {FrameOf(<<Product("P001", 10, 18)>>, Range(ProductRequiredCols) \ missing) :
            missing \in NonEmptySubsets(Range(ProductRequiredCols))}

SessionTables ==
    {Block("P001", MinObservations, 1, "noisy"),
     Block("P001", MinObservations - 1, 1, "unit") \o Block("P003", MinObservations, 0, "unit"),
     Block("P002", MinObservations, 0, "unit")}

HistoryFrames ==
    {FrameOf(t, Range(HistoryRequiredCols)) : t \in SessionTables}
    \cup {FrameOf(SpoilDate(Block("P001", MinObservations, 0, "unit")),
                  Range(HistoryRequiredCols))}
    \cup {FrameOf(Block("P001", 1, 0, "unit"), Range(HistoryRequiredCols) \ missing) :
            missing \in NonEmptySubsets(Range(HistoryRequiredCols))}

PriceChangeInputs ==
    {<<>>, ("P001" :> Rat(-1, 5)) @@ ("P002" :> Rat(1, 10))}

OptimizeInputs ==
    {<<"profit", Rat(1, 10), Rat(1, 5)>>, <<"volume", Rat(1, 2), Rat(1, 5)>>}

\* PricingSimulator.__init__
Init ==
    /\ product_data = None
    /\ historical_data = None
    /\ elasticities = EmptyDict
    /\ models = EmptyDict
    /\ result = Returned("__init__", <<>>, NoValue)
    /\ last_results = EmptyDict

LoadProductData == \E df \in CatalogFrames : load_product_data(df)

LoadHistoricalData == \E df \in HistoryFrames : load_historical_data(df)

CalculateElasticity == calculate_elasticity

SimulateScenario ==
    \E price_changes \in PriceChangeInputs : simulate_scenario(price_changes)

OptimizePricing ==
    \E args \in OptimizeInputs : optimize_pricing(args[1], args[2], args[3])

Next ==
    \/ LoadProductData
    \/ LoadHistoricalData
    \/ CalculateElasticity
    \/ SimulateScenario
    \/ OptimizePricing

Spec == Init /\ [][Next]_vars

-----------------------------------------------------------------------------
(* SpecQuery: the computations over a wide range of data.  A session       *)
(* that, after construction, has loaded observations (or none) and then a  *)
(* catalog, estimates elasticities or not, and asks one question.          *)

\* <<base_cost, current_price>>: a margin, no margin, no cost, a loss
CostPrice == {<<10, 18>>, <<10, 10>>, <<0, 10>>, <<18, 10>>}

Catalogs ==
    {<<Product("P001", cp[1], cp[2])>> : cp \in CostPrice}
    \cup {<<Product("P001", cp[1], cp[2]), Product("P002", 10, 10)>> : cp \in CostPrice}

HistoryTables ==
    {Block("P001", n, k, shape) \o Block("P003", m, 0, "unit") :
        n \in 0..MaxValid, k \in 0..MaxInvalid, shape \in Shapes,
        m \in {0, MinObservations}}

QueryPriceChanges ==
    {<<>>,
     "P001" :> Rat(1, 10),
     ("P001" :> Rat(-1, 5)) @@ ("P002" :> Rat(1, 10)),
     "P009" :> Rat(1, 10)}

Objectives == {"profit", "revenue", "volume", "margin"}
MinMargins == {Rat(1, 10), ROne}
MaxChanges == {RZero, Rat(1, 5), ROne, Int2Rat(2), Rat(-1, 5)}

\* the states load_historical_data(t) (or no such call) and then
\* load_product_data(c) lead to from Init
QueryInit ==
    /\ product_data \in {Frame(c) : c \in Catalogs}
    /\ historical_data \in {None} \cup {Frame(to_datetime(t)) : t \in HistoryTables}
    /\ elasticities = EmptyDict
    /\ models = EmptyDict
    /\ result = Returned("load_product_data",
                         FrameOf(product_data.rows, Range(ProductRequiredCols)), NoValue)
    /\ last_results = EmptyDict

QueryCalculateElasticity ==
    /\ result.op = "load_product_data"
    /\ calculate_elasticity

QuerySimulateScenario ==
    /\ result.op \in {"load_product_data", "calculate_elasticity"}
    /\ \E price_changes \in QueryPriceChanges : simulate_scenario(price_changes)

QueryOptimizePricing ==
    /\ result.op \in {"load_product_data", "calculate_elasticity"}
    /\ \E objective \in Objectives, min_margin \in MinMargins, max_change \in MaxChanges :
           optimize_pricing(objective, min_margin, max_change)

QueryNext ==
    \/ QueryCalculateElasticity
    \/ QuerySimulateScenario
    \/ QueryOptimizePricing

SpecQuery == QueryInit /\ [][QueryNext]_vars

-----------------------------------------------------------------------------
(* Properties.                                                             *)

Called(op) == result.op = op
Succeeded(op) == result.op = op /\ result.error = "none"

CatalogRows == {product_data.rows[i] : i \in 1..Len(product_data.rows)}

\* the candidates of a row that the margin filter keeps
Passing(row, min_margin, max_change) ==
    {j \in 1..NumTestPoints : ~Skipped(row, test_points(max_change)[j], min_margin)}

\* the metric an objective names, under the first-order model
MetricOf(objective, row, change) ==
    CASE objective = "profit"  -> OptProjection(row, change).profit
      [] objective = "revenue" -> OptProjection(row, change).revenue
      [] objective = "volume"  -> OptProjection(row, change).volume

C2_MarginOrFallback ==
    Succeeded("optimize_pricing")
    => \A row \in CatalogRows :
          LET chosen == result.value[row.product_id] IN
          /\ FGe(Margin(row, chosen), result.args[2]) \/ chosen = RZero
          /\ Passing(row, result.args[2], result.args[3]) = {} => chosen = RZero

NotLoadedMessages == {<<"Historical data not loaded">>, <<"Product data not loaded">>}

\* the deliberate precondition failure of the code: a ValueError saying
\* which table is not loaded, and no value
IsStateError(r) ==
    /\ r.error = "ValueError"
    /\ r.message \in NotLoadedMessages
    /\ r.value = NoValue

\* C3: calculate_elasticity without observations, and simulate_scenario and
\* optimize_pricing without a catalog, each fail with a state error, return
\* nothing and leave catalog, observations and elasticities unchanged.
C3_StateErrors ==
    [][((result'.op = "calculate_elasticity" /\ ~historical_data.loaded)
        \/ (result'.op \in {"simulate_scenario", "optimize_pricing"}
            /\ ~product_data.loaded))
       => (/\ IsStateError(result')
           /\ UNCHANGED <<product_data, historical_data, elasticities>>)]_vars

\* C4: every load is atomic on its table: after a success the table holds
\* exactly the rows of the call, after a failure of any cause (a missing
\* column, a date that cannot be parsed) it is as it was before the call.
C4_AtomicLoads ==
    [][/\ result'.op = "load_product_data"
          => IF result'.error = "none"
             THEN product_data' = Frame(result'.args.rows)
             ELSE product_data' = product_data
       /\ result'.op = "load_historical_data"
          => IF result'.error = "none"
             THEN historical_data' = Frame(to_datetime(result'.args.rows))
             ELSE historical_data' = historical_data]_vars

\* the required columns a failed load lacked, and those its message lists
MissingCols(required_cols) == Range(required_cols) \ result.args.columns
ListedCols == Range(result.message[2])

\* C5 as stated: a load lacking any non-empty subset of the required fields
\* fails with a validation error whose message names the fields that are
\* missing in that call.
C5_NamesMissingFields ==
    /\ (Called("load_product_data") /\ MissingCols(ProductRequiredCols) # {})
       => (result.error = "ValueError" /\ ListedCols = MissingCols(ProductRequiredCols))
    /\ (Called("load_historical_data") /\ MissingCols(HistoryRequiredCols) # {})
       => (result.error = "ValueError" /\ ListedCols = MissingCols(HistoryRequiredCols))

\* C5 amended: such a load fails with a validation error whose message lists
\* all the required fields of the table, the missing ones among them,
\* whichever fields are missing.
C5_ListsRequiredFields ==
    /\ (Called("load_product_data") /\ MissingCols(ProductRequiredCols) # {})
       => (/\ result.error = "ValueError"
           /\ ListedCols = Range(ProductRequiredCols)
           /\ MissingCols(ProductRequiredCols) \subseteq ListedCols)
    /\ (Called("load_historical_data") /\ MissingCols(HistoryRequiredCols) # {})
       => (/\ result.error = "ValueError"
           /\ ListedCols = Range(HistoryRequiredCols)
           /\ MissingCols(HistoryRequiredCols) \subseteq ListedCols)

\* a catalog load that lacked one required field only
C5_Witness ==
    /\ Called("load_product_data")
    /\ MissingCols(ProductRequiredCols) = {"base_cost"}
    /\ result.error = "ValueError"

\* rows of a product in the loaded observations, and the valid ones
RowsOf(p) == {i \in 1..Len(historical_data.rows) : historical_data.rows[i].product_id = p}
ValidRowsOf(p) ==
    {i \in RowsOf(p) : historical_data.rows[i].price > 0 /\ historical_data.rows[i].volume > 0}

\* C6: for every product id of the observations the result has
\* is_modeled = false exactly when fewer than 5 rows have price > 0 and
\* volume > 0, and then elasticity = -1.0 and r_squared = 0.0.
C6_ModelledFromFiveValidRows ==
    Succeeded("calculate_elasticity")
    => \A p \in unique_product_ids(historical_data) :
          /\ p \in DOMAIN result.value
          /\ ~result.value[p].is_modeled <=> Cardinality(ValidRowsOf(p)) < 5
          /\ ~result.value[p].is_modeled
             => (/\ result.value[p].elasticity = <<-1, 1>>
                 /\ result.value[p].r_squared = <<0, 1>>)

\* one product with 4 valid rows and invalid rows beside them, not modelled,
\* and one with 5 valid rows, modelled
C6_Witness ==
    /\ Succeeded("calculate_elasticity")
    /\ \E p, q \in DOMAIN result.value :
          /\ Cardinality(ValidRowsOf(p)) = 4
          /\ Cardinality(RowsOf(p)) > 5
          /\ ~result.value[p].is_modeled
          /\ Cardinality(ValidRowsOf(q)) = 5
          /\ result.value[q].is_modeled

\* C7: after a successful calculate_elasticity the stored mapping has one
\* entry for each product id occurring in the loaded observations and no
\* other entry.
C7_MappingReplaced ==
    Succeeded("calculate_elasticity")
    => DOMAIN elasticities
         = {historical_data.rows[i].product_id : i \in 1..Len(historical_data.rows)}

\* a run after which a product modelled by an earlier run has no entry
C7_Witness ==
    /\ Succeeded("calculate_elasticity")
    /\ \E p \in DOMAIN models : p \notin DOMAIN elasticities

\* C8: in every record simulate returns, profit_change_pct is 0 when
\* old_profit is 0 and revenue_change_pct is 0 when old_revenue is 0, the
\* call does not fail, and otherwise the field is (new - old) / old.
C8_ZeroBaselineGuard ==
    (Called("simulate_scenario") /\ product_data.loaded)
    => /\ result.error = "none"
       /\ \A i \in 1..Len(result.value) :
             LET r == result.value[i] IN
             /\ r.old_profit = RZero => r.profit_change_pct = RZero
             /\ r.old_revenue = RZero => r.revenue_change_pct = RZero
             /\ r.old_profit # RZero
                => RMul(r.profit_change_pct, r.old_profit) = RSub(r.new_profit, r.old_profit)
             /\ r.old_revenue # RZero
                => RMul(r.revenue_change_pct, r.old_revenue)
                     = RSub(r.new_revenue, r.old_revenue)

\* a record with no baseline profit and a projected profit, and a record
\* with no baseline revenue
C8_Witness ==
    /\ Succeeded("simulate_scenario")
    /\ \E i \in 1..Len(result.value) :
          /\ result.value[i].old_profit = RZero
          /\ result.value[i].new_profit # RZero
    /\ \E i \in 1..Len(result.value) : result.value[i].old_revenue = RZero

\* the simulator's record of one product for the scenario {product: change}
SimulatedAlone(row, change) == SimulationRecord(row, row.product_id :> change)

\* C9: for every catalog product and every candidate passing the margin
\* filter, the volume, revenue and profit optimize evaluates are new_volume,
\* new_revenue and new_profit of simulate({product: candidate}) in the same
\* state, with the same base volume and the same elasticity.
C9_SameProjection ==
    Succeeded("optimize_pricing")
    => \A row \in CatalogRows :
          \A j \in Passing(row, result.args[2], result.args[3]) :
              LET change    == test_points(result.args[3])[j]
                  evaluated == OptProjection(row, change)
                  simulated == SimulatedAlone(row, change)
              IN  /\ evaluated.volume = simulated.new_volume
                  /\ evaluated.revenue = simulated.new_revenue
                  /\ evaluated.profit = simulated.new_profit
                  /\ OptBaseVolume(row.product_id) = simulated.old_volume
                  /\ OptElasticity(row.product_id) = simulated.elasticity

\* an optimisation over a product with a fitted elasticity whose
\* observations include invalid rows of non-zero volume
C9_Witness ==
    /\ Succeeded("optimize_pricing")
    /\ RGt(result.args[3], RZero)
    /\ historical_data.loaded
    /\ \E row \in CatalogRows :
          /\ Passing(row, result.args[2], result.args[3]) # {}
          /\ row.product_id \in DOMAIN elasticities
          /\ elasticities[row.product_id].is_modeled
          /\ \E i \in RowsOf(row.product_id) \ ValidRowsOf(row.product_id) :
                historical_data.rows[i].volume > 0

\* mean volume of all the loaded observations of a product, 1000 without any
MeanVolume(p) ==
    IF historical_data.loaded /\ RowsOf(p) # {}
    THEN LET total[S \in SUBSET RowsOf(p)] ==
                 IF S = {} THEN 0
                 ELSE LET i == CHOOSE x \in S : TRUE
                      IN  historical_data.rows[i].volume + total[S \ {i}]
         IN  Rat(total[RowsOf(p)], Cardinality(RowsOf(p)))
    ELSE <<1000, 1>>

\* the elasticity of the latest successful calculate_elasticity, -1.0 without
LatestElasticity(p) ==
    IF p \in DOMAIN last_results THEN last_results[p].elasticity ELSE <<-1, 1>>

\* C10: the elasticity mapping is the result of the latest successful
\* calculate_elasticity (empty before the first); no other call changes it,
\* and simulate and optimize use it, even when observations have been
\* reloaded since, together with the base volume of the observations now loaded.
C10_ElasticitiesFrame ==
    /\ elasticities = last_results
    /\ product_data.loaded
       => \A row \in CatalogRows :
             /\ OptElasticity(row.product_id) = LatestElasticity(row.product_id)
             /\ OptBaseVolume(row.product_id) = MeanVolume(row.product_id)
    /\ Succeeded("simulate_scenario")
       => \A i \in 1..Len(result.value) :
             LET r == result.value[i] IN
             /\ r.elasticity = LatestElasticity(r.product_id)
             /\ r.old_volume = MeanVolume(r.product_id)

\* a simulation using a fitted elasticity for a product whose observations,
\* reloaded since, no longer suffice for a fit
C10_Witness ==
    /\ Succeeded("simulate_scenario")
    /\ historical_data.loaded
    /\ \E i \in 1..Len(result.value) :
          LET p == result.value[i].product_id IN
          /\ p \in DOMAIN elasticities
          /\ elasticities[p].is_modeled
          /\ RowsOf(p) # {}
          /\ Cardinality(ValidRowsOf(p)) < 5
          /\ result.value[i].elasticity = elasticities[p].elasticity

=============================================================================
